---- MODULE Spec2Model ----
(***************************************************************************)
(* A model of krux_ec2: the Filter builder (krux_ec2/filter.py) and the    *)
(* search-normalising decorator with the finders that use it               *)
(* (krux_ec2/ec2.py).                                                      *)
(*                                                                         *)
(* Python objects live in heaps and are named by their index (identity):   *)
(*   lists   - list objects, each a sequence of texts;                     *)
(*   dicts   - plain dict objects built by a caller;                       *)
(*   filters - Filter instances, each being its _filter dict.              *)
(* A dict is the sequence of its items in insertion order, each item a     *)
(* record [key, val] whose val is a reference into lists.  A text is the   *)
(* sequence of its characters, so that splitting and prefixing are         *)
(* computed and not assumed.                                               *)
(***************************************************************************)
EXTENDS Naturals, Sequences, FiniteSets

VARIABLES
    filters,    \* the Filter instances
    dicts,      \* the caller's dict objects
    lists,      \* the list objects
    sdk,        \* the calls the last operation made on the SDK
    last,       \* the last call made: what was called, with what, and how it ended
    prev,       \* the heap as it was before the last call
    acc,        \* history: per Filter, the values it was given under each name
    run,        \* history: the add_filter calls in a row on one new name
    ec2,        \* the EC2 object: whether its _resource and _client are set
    made,       \* history: how often boto.resource and boto.client were called
    nops        \* the number of calls made

vars == <<filters, dicts, lists, sdk, last, prev, acc, run, ec2, made, nops>>

(* The number of calls a behaviour makes. *)
MaxOps == 3

(* ------------------------------ texts ---------------------------------- *)

EQ == "="

K == <<"k">>

V == <<"v">>

W == <<"w">>

TAG_PREFIX == <<"t", "a", "g", ":">>

TAG_VALUE == <<"t", "a", "g", "-", "v", "a", "l", "u", "e">>

(* ------------------------- the built-in dict --------------------------- *)

Keys(d) == {d[i].key : i \in 1..Len(d)}

IndexOf(d, k) == CHOOSE i \in 1..Len(d) : d[i].key = k

dict_getitem(d, k) == d[IndexOf(d, k)].val

dict_setitem(d, k, r) ==
    IF k \in Keys(d)
    THEN [d EXCEPT ![IndexOf(d, k)] = [key |-> k, val |-> r]]
    ELSE Append(d, [key |-> k, val |-> r])

dict_delitem(d, k) == SelectSeq(d, LAMBDA e : e.key # k)

(* dict.update(other): every item of other is set, in other's order; the   *)
(* value stored is other's value object itself, not a copy of it.          *)
RECURSIVE dict_update(_, _)
dict_update(d, other) ==
    IF other = <<>> THEN d
    ELSE dict_update(dict_setitem(d, Head(other).key, Head(other).val), Tail(other))

(* ------------------------------ the heap ------------------------------- *)

Heap == [filters |-> filters, dicts |-> dicts, lists |-> lists]

(* The entries of a dict as a caller sees them: key -> the texts of the    *)
(* list it refers to.                                                      *)
Entries(H, d) == [k \in Keys(d) |-> H.lists[dict_getitem(d, k)]]

FilterEntries(H, f) == Entries(H, H.filters[f])

DictEntries(H, m) == Entries(H, H.dicts[m])

(* A new list object holding vs; its reference is Len(lists) afterwards.   *)
NewList(H, vs) == [H EXCEPT !.lists = Append(@, vs)]

(* A dict literal {k1: [..], k2: [..]}: one new list per item.             *)
RECURSIVE DictLiteral(_, _, _)
DictLiteral(H, items, d) ==
    IF items = <<>> THEN [H EXCEPT !.dicts = Append(@, d)]
    ELSE DictLiteral(NewList(H, Head(items).values), Tail(items),
                     Append(d, [key |-> Head(items).key, val |-> Len(H.lists) + 1]))

(* ------------------------------- Filter -------------------------------- *)

(* Filter.__init__(self, initial=None); initial is a dict reference or 0   *)
(* for None.  The new instance is the last of H.filters.                   *)
Filter_init(H, initial) ==
    LET empty == <<>>
    IN  [H EXCEPT !.filters =
            Append(@, IF initial # 0 THEN dict_update(empty, H.dicts[initial]) ELSE empty)]

Filter_contains(H, f, key) == key \in Keys(H.filters[f])

Filter_getitem(H, f, key) == dict_getitem(H.filters[f], key)

Filter_setitem(H, f, key, r) == [H EXCEPT !.filters[f] = dict_setitem(@, key, r)]

Filter_delitem_clear(H, f, key) == [H EXCEPT !.filters[f] = <<>>]

Filter_delitem(H, f, key) == [H EXCEPT !.filters[f] = dict_delitem(@, key)]

Filter_len(H, f) == Len(H.filters[f])

add_filter_prepend(H, f, name, value) ==
    IF Filter_contains(H, f, name)
    THEN [H EXCEPT !.lists[Filter_getitem(H, f, name)] = <<value>> \o @]
    ELSE Filter_setitem(NewList(H, <<value>>), f, name, Len(H.lists) + 1)

add_filter_forget(H, f, name, value) ==
    IF Filter_contains(H, f, name)
    THEN [H EXCEPT !.lists[Filter_getitem(H, f, name)] = Append(@, value)]
    ELSE Filter_setitem(NewList(H, <<>>), f, name, Len(H.lists) + 1)

(* Filter.add_filter: append in place to the list stored under name, or    *)
(* store a new one-element list.                                           *)
add_filter(H, f, name, value) ==
    IF Filter_contains(H, f, name)
    THEN [H EXCEPT !.lists[Filter_getitem(H, f, name)] = Append(@, value)]
    ELSE Filter_setitem(NewList(H, <<value>>), f, name, Len(H.lists) + 1)

add_tag_filter_bare(H, f, name, value) == add_filter(H, f, name, value)

(* Filter.add_tag_filter *)
add_tag_filter(H, f, name, value) == add_filter(H, f, TAG_PREFIX \o name, value)

(* '=' in s, and the place of the first (last) one in it; 0 when none.     *)
RECURSIVE find(_, _, _)
find(s, c, i) ==
    IF i > Len(s) THEN 0
    ELSE IF s[i] = c THEN i
    ELSE find(s, c, i + 1)

RECURSIVE rfind(_, _, _)
rfind(s, c, i) ==
    IF i < 1 THEN 0
    ELSE IF s[i] = c THEN i
    ELSE rfind(s, c, i - 1)

split_last(s) ==
    LET i == rfind(s, EQ, Len(s))
    IN  <<SubSeq(s, 1, i - 1), SubSeq(s, i + 1, Len(s))>>

(* search_term.split('=', 1) of a text holding an '=' *)
split_first(s) ==
    LET i == find(s, EQ, 1)
    IN  <<SubSeq(s, 1, i - 1), SubSeq(s, i + 1, Len(s))>>

(* Filter.parse_string *)
parse_string(H, f, search_term) ==
    LET has   == find(search_term, EQ, 1) # 0
        name  == IF has THEN split_first(search_term)[1] ELSE TAG_VALUE
        value == IF has THEN split_first(search_term)[2] ELSE search_term
    IN  add_filter(H, f, name, value)

(* Filter.to_filter: one record per item, in the dict's order.             *)
to_filter(H, f) ==
    [i \in 1..Len(H.filters[f]) |->
        [Name |-> H.filters[f][i].key, Values |-> H.lists[H.filters[f][i].val]]]

(* ------------------------- ec2.py: the finders -------------------------- *)

(* A search argument as Python sees it: its type, the object it refers to  *)
(* (dict or Filter) and, for a list, its terms.                            *)
SearchList(terms) == [type |-> "list", ref |-> 0, terms |-> terms]

SearchDict(m) == [type |-> "dict", ref |-> m, terms |-> <<>>]

SearchFilter(f) == [type |-> "Filter", ref |-> f, terms |-> <<>>]

SearchOther == [type |-> "other", ref |-> 0, terms |-> <<>>]

RECURSIVE parse_terms(_, _, _)
parse_terms(H, f, terms) ==
    IF terms = <<>> THEN H
    ELSE parse_terms(parse_string(H, f, Head(terms)), f, Tail(terms))

map_search_to_filter_copy(H, search) ==
    CASE search.type = "list" ->
            LET H1 == Filter_init(H, 0)
            IN  [heap |-> parse_terms(H1, Len(H1.filters), search.terms),
                 outcome |-> "ok", filter |-> Len(H1.filters)]
      [] search.type = "dict" ->
            LET H1 == Filter_init(H, search.ref)
            IN  [heap |-> H1, outcome |-> "ok", filter |-> Len(H1.filters)]
      [] search.type = "Filter" ->
            LET H1 == Filter_init(H, 0)
            IN  [heap |-> [H1 EXCEPT !.filters[Len(H1.filters)] = H.filters[search.ref]],
                 outcome |-> "ok", filter |-> Len(H1.filters)]
      [] OTHER ->
            [heap |-> H, outcome |-> "NotImplementedError", filter |-> 0]

(* map_search_to_filter: the Filter handed to the wrapped method, or the   *)
(* error raised instead of calling it.                                     *)
map_search_to_filter(H, search) ==
    CASE search.type = "list" ->
            LET H1 == Filter_init(H, 0)
            IN  [heap |-> parse_terms(H1, Len(H1.filters), search.terms),
                 outcome |-> "ok", filter |-> Len(H1.filters)]
      [] search.type = "dict" ->
            LET H1 == Filter_init(H, search.ref)
            IN  [heap |-> H1, outcome |-> "ok", filter |-> Len(H1.filters)]
      [] search.type = "Filter" ->
            [heap |-> H, outcome |-> "ok", filter |-> search.ref]
      [] OTHER ->
            [heap |-> H, outcome |-> "NotImplementedError", filter |-> 0]

(* What the decorator hands on to the wrapped method beyond self and the   *)
(* Filter: wrapped(args[0], search_filter).                                *)
wrapped_args(args) == <<>>

wrapped_kwargs(kwargs) == {}

(* find_instances / find_ebs_volumes behind the decorator: the one call    *)
(* made on the SDK collection.                                             *)
find_call(H, collection, f, args, kwargs) ==
    [collection |-> collection, Filters |-> to_filter(H, f),
     args |-> args, kwargs |-> kwargs]

(* ------------------------------ the inputs ----------------------------- *)

CriterionNames == {K, TAG_PREFIX \o K}

TagNames == {K}

Values == {V, W}

(* What a caller may assign with f[name] = [...] *)
ValueLists == {<<>>, <<V>>, <<W, V>>}

(* "k=v", "w", "k=v=w", "k=", "=v", "=", "" *)
Terms ==
    { <<"k", "=", "v">>, <<"w">>, <<"k", "=", "v", "=", "w">>,
      <<"k", "=">>, <<"=", "v">>, <<"=">>, <<>> }

(* [], ["k=v", "w", "k=w"] *)
SearchLists ==
    { <<>>, << <<"k", "=", "v">>, <<"w">>, <<"k", "=", "w">> >> }

(* The dict literals a caller has at hand:                                 *)
(*   {}, {'k': ['v','w'], 'tag:k': ['w']}, {'k': []}                       *)
CallerLiterals ==
    << <<>>,
       << [key |-> K, values |-> <<V, W>>], [key |-> TAG_PREFIX \o K, values |-> <<W>>] >>,
       << [key |-> K, values |-> <<>>] >> >>

(* What a caller passes after the search: nothing, or one positional and  *)
(* one keyword argument.                                                   *)
Extras == {[args |-> <<>>, kwargs |-> {}], [args |-> <<"x">>, kwargs |-> {"DryRun"}]}

Collections == {"instances", "volumes"}

RECURSIVE BuildLiterals(_, _)
BuildLiterals(H, literals) ==
    IF literals = <<>> THEN H
    ELSE BuildLiterals(DictLiteral(H, Head(literals), <<>>), Tail(literals))

(* The name of __init__'s one parameter besides self. *)
INITIAL == <<"i", "n", "i", "t", "i", "a", "l">>

(* Filter called with keywords only, the items of caller dict m, none of them named     *)
(* 'initial': Python binds keywords to __init__(self, initial=None) and    *)
(* raises TypeError on a keyword that names no parameter.                  *)
Filter_init_keywords(H, m) ==
    IF Keys(H.dicts[m]) \subseteq {INITIAL}
    THEN [heap |-> Filter_init(H, 0), outcome |-> "ok"]
    ELSE [heap |-> H, outcome |-> "TypeError"]

(* ------------------------------ the calls ------------------------------ *)

NoSearch == [type |-> "none", ref |-> 0, terms |-> <<>>]

Call(op, self, name, value, outcome, ret) ==
    [op |-> op, self |-> self, name |-> name, value |-> value, search |-> NoSearch,
     args |-> <<>>, kwargs |-> {}, outcome |-> outcome, ret |-> ret, out |-> <<>>]

(* What the caller asked for, read off the call alone. *)
Range(s) == {s[i] : i \in 1..Len(s)}

(* name and value are what 'name=value' or a bare value says. *)
Splits(term, name, value) ==
    IF EQ \in Range(term)
    THEN EQ \notin Range(name) /\ term = name \o <<EQ>> \o value
    ELSE name = TAG_VALUE /\ value = term

Parsed(term) ==
    CHOOSE p \in ({SubSeq(term, 1, i) : i \in 0..Len(term)} \cup {TAG_VALUE})
                    \X {SubSeq(term, i, Len(term)) : i \in 1..(Len(term) + 1)} :
        Splits(term, p[1], p[2])

NoEntries == [k \in {} |-> <<>>]

Given(a, name, value) ==
    [k \in (DOMAIN a) \cup {name} |->
        IF k # name THEN a[k]
        ELSE IF name \in DOMAIN a THEN Append(a[name], value) ELSE <<value>>]

RECURSIVE GivenTerms(_, _)
GivenTerms(a, terms) ==
    IF terms = <<>> THEN a
    ELSE GivenTerms(Given(a, Parsed(Head(terms))[1], Parsed(Head(terms))[2]), Tail(terms))

NoRun == [self |-> 0, name |-> <<>>, vals |-> <<>>]

Built(given) == [given |-> given, pure |-> TRUE]

(* acc[f].given: the values Filter f was given under each name, by its     *)
(* construction and by add_filter, add_tag_filter and parse_string;        *)
(* acc[f].pure: no other call has changed f.                               *)
NextAcc(call) ==
    CASE call.op = "Filter" ->
            Append(acc, Built(IF call.self = 0 THEN NoEntries
                              ELSE DictEntries(Heap, call.self)))
      [] call.op = "Filter**" ->
            IF call.outcome = "ok" THEN Append(acc, Built(NoEntries)) ELSE acc
      [] call.op = "add_filter" ->
            [acc EXCEPT ![call.self].given = Given(@, call.name, call.value)]
      [] call.op = "add_tag_filter" ->
            [acc EXCEPT ![call.self].given = Given(@, TAG_PREFIX \o call.name, call.value)]
      [] call.op = "parse_string" ->
            [acc EXCEPT ![call.self].given =
                Given(@, Parsed(call.value)[1], Parsed(call.value)[2])]
      [] call.op \in {"setitem", "delitem"} /\ call.outcome = "ok" ->
            [acc EXCEPT ![call.self].pure = FALSE]
      [] call.op = "find" /\ call.search.type = "list" ->
            Append(acc, Built(GivenTerms(NoEntries, call.search.terms)))
      [] call.op = "find" /\ call.search.type = "dict" ->
            Append(acc, Built(DictEntries(Heap, call.search.ref)))
      [] OTHER -> acc

NextRun(call) ==
    IF call.op # "add_filter" THEN NoRun
    ELSE IF call.name \notin Keys(filters[call.self])
    THEN [self |-> call.self, name |-> call.name, vals |-> <<call.value>>]
    ELSE IF run.self = call.self /\ run.name = call.name
    THEN [run EXCEPT !.vals = Append(@, call.value)]
    ELSE NoRun

Step(H, call, calls) ==
    /\ nops < MaxOps
    /\ nops' = nops + 1
    /\ prev' = Heap
    /\ filters' = H.filters
    /\ dicts' = H.dicts
    /\ lists' = H.lists
    /\ last' = call
    /\ sdk' = calls
    /\ acc' = NextAcc(call)
    /\ run' = NextRun(call)
    /\ ec2' = ec2
    /\ made' = made

Fixtures ==
    BuildLiterals([filters |-> <<>>, dicts |-> <<>>, lists |-> <<>>], CallerLiterals)

(* The caller's dict literals exist and one empty Filter() has been made.  *)
Init ==
    LET H == Filter_init(Fixtures, 0)
    IN  /\ filters = H.filters
        /\ dicts = H.dicts
        /\ lists = H.lists
        /\ prev = H
        /\ last = Call("Filter", 0, <<>>, <<>>, "ok", 1)
        /\ sdk = <<>>
        /\ acc = <<Built(NoEntries)>>
        /\ run = NoRun
        /\ ec2 = [resource |-> FALSE, client |-> FALSE]
        /\ made = [resource |-> 0, client |-> 0]
        /\ nops = 0

FilterIds == 1..Len(filters)

DictIds == 1..Len(dicts)

(* Filter() and Filter(initial) *)
Construct ==
    \E initial \in {0} \cup DictIds :
        LET H == Filter_init(Heap, initial)
        IN  Step(H, Call("Filter", initial, <<>>, <<>>, "ok", Len(H.filters)), <<>>)

(* Filter called with the items of a caller dict as keywords *)
ConstructKeywords ==
    \E m \in DictIds :
        /\ INITIAL \notin Keys(dicts[m])
        /\ LET R == Filter_init_keywords(Heap, m)
           IN  Step(R.heap,
                    Call("Filter**", m, <<>>, <<>>, R.outcome,
                         IF R.outcome = "ok" THEN Len(R.heap.filters) ELSE 0),
                    <<>>)

AddFilter ==
    \E f \in FilterIds, name \in CriterionNames, value \in Values :
        Step(add_filter(Heap, f, name, value),
             Call("add_filter", f, name, value, "ok", 0), <<>>)

AddTagFilter ==
    \E f \in FilterIds, name \in TagNames, value \in Values :
        Step(add_tag_filter(Heap, f, name, value),
             Call("add_tag_filter", f, name, value, "ok", 0), <<>>)

ParseString ==
    \E f \in FilterIds, term \in Terms :
        Step(parse_string(Heap, f, term),
             Call("parse_string", f, <<>>, term, "ok", 0), <<>>)

(* f[name] = [...]: the caller's new list object is stored as it is.       *)
SetItem ==
    \E f \in FilterIds, name \in CriterionNames, values \in ValueLists :
        Step(Filter_setitem(NewList(Heap, values), f, name, Len(lists) + 1),
             Call("setitem", f, name, values, "ok", 0), <<>>)

(* f[name] = f[other]: the list object stored under other is stored under *)
(* name too.                                                               *)
SetItemStored ==
    \E f \in FilterIds, name \in CriterionNames, other \in CriterionNames :
        /\ other # name
        /\ Filter_contains(Heap, f, other)
        /\ Step(Filter_setitem(Heap, f, name, Filter_getitem(Heap, f, other)),
                Call("setitem", f, name, lists[Filter_getitem(Heap, f, other)], "ok", 0),
                <<>>)

(* f[name]: the list object stored, or KeyError.                           *)
GetItem ==
    \E f \in FilterIds, name \in CriterionNames :
        IF Filter_contains(Heap, f, name)
        THEN Step(Heap, Call("getitem", f, name, <<>>, "ok", Filter_getitem(Heap, f, name)), <<>>)
        ELSE Step(Heap, Call("getitem", f, name, <<>>, "KeyError", 0), <<>>)

(* del f[name] *)
DelItem ==
    \E f \in FilterIds, name \in CriterionNames :
        IF Filter_contains(Heap, f, name)
        THEN Step(Filter_delitem(Heap, f, name), Call("delitem", f, name, <<>>, "ok", 0), <<>>)
        ELSE Step(Heap, Call("delitem", f, name, <<>>, "KeyError", 0), <<>>)

ToFilter ==
    \E f \in FilterIds :
        Step(Heap, [Call("to_filter", f, <<>>, <<>>, "ok", Filter_len(Heap, f))
                        EXCEPT !.out = to_filter(Heap, f)], <<>>)

Searches ==
    {SearchList(t) : t \in SearchLists} \cup {SearchDict(m) : m \in DictIds}
        \cup {SearchFilter(f) : f \in FilterIds} \cup {SearchOther}

(* ec2.find_instances(search, *args, **kwargs) and                         *)
(* ec2.find_ebs_volumes(search, *args, **kwargs), both decorated.          *)
Find ==
    \E collection \in Collections, search \in Searches, extra \in Extras :
        LET R == map_search_to_filter(Heap, search)
            call == [Call("find", 0, collection, <<>>, R.outcome, R.filter)
                        EXCEPT !.search = search, !.args = extra.args,
                               !.kwargs = extra.kwargs]
        IN  IF R.outcome = "ok"
            THEN Step(R.heap, call,
                      <<find_call(R.heap, collection, R.filter,
                                  wrapped_args(extra.args), wrapped_kwargs(extra.kwargs))>>)
            ELSE Step(R.heap, call, <<>>)

Next ==
    \/ Construct
    \/ ConstructKeywords
    \/ AddFilter
    \/ AddTagFilter
    \/ ParseString
    \/ SetItem
    \/ SetItemStored
    \/ GetItem
    \/ DelItem
    \/ ToFilter

Spec == Init /\ [][Next]_vars

(* The finders, on Filters built by add_filter and by the finders' own     *)
(* normalisation.                                                          *)
NextFind ==
    \/ Construct
    \/ AddFilter
    \/ Find

SpecFind == Init /\ [][NextFind]_vars

(* ----------------------------- ec2.py: EC2 ------------------------------ *)

(* A call of an EC2 method: the heap, the SDK calls made and the handles   *)
(* it leaves.                                                              *)
StepEC2(H, call, calls, handles) ==
    /\ nops < MaxOps
    /\ nops' = nops + 1
    /\ prev' = Heap
    /\ filters' = H.filters
    /\ dicts' = H.dicts
    /\ lists' = H.lists
    /\ last' = call
    /\ sdk' = calls
    /\ acc' = acc
    /\ run' = NoRun
    /\ ec2' = handles
    /\ made' = [resource |-> made.resource
                    + Len(SelectSeq(calls, LAMBDA c : c = [call |-> "boto.resource", service_name |-> "ec2"])),
                client |-> made.client
                    + Len(SelectSeq(calls, LAMBDA c : c = [call |-> "boto.client", service_name |-> "ec2"]))]

(* ------------------------------- get_tags ------------------------------ *)

(* The longest list of tags given to get_tags. *)
MaxTags == 3

COMMA == ","

S_CLASSES == "s_classes"

(* A tag as Python sees it: a dict with the keys in has, an object with    *)
(* the attributes in has, or something else (a number).                    *)
TagDict(has, key, value) == [shape |-> "dict", has |-> has, key |-> key, value |-> value]

TagObject(has, key, value) == [shape |-> "object", has |-> has, key |-> key, value |-> value]

TagOther == [shape |-> "other", has |-> {}, key |-> "", value |-> <<>>]

(* value.split(',') *)
RECURSIVE split_commas(_)
split_commas(s) ==
    LET i == find(s, COMMA, 1)
    IN  IF i = 0 THEN <<s>>
        ELSE <<SubSeq(s, 1, i - 1)>> \o split_commas(SubSeq(s, i + 1, Len(s)))

is_dict_tag_any(tag) ==
    tag.shape = "dict" /\ ("Key" \in tag.has \/ "Value" \in tag.has)

(* isinstance(tag, dict) and 'Key' in tag and 'Value' in tag *)
is_dict_tag(tag) ==
    tag.shape = "dict" /\ "Key" \in tag.has /\ "Value" \in tag.has

(* hasattr(tag, 'key') and hasattr(tag, 'value') *)
is_attr_tag(tag) == "key" \in tag.has /\ "value" \in tag.has

(* The value stored: a text, or the list of the texts between commas.      *)
Text(v) == [kind |-> "str", v |-> v]

List(v) == [kind |-> "list", v |-> v]

tag_value(key, value) ==
    IF key = S_CLASSES THEN List(split_commas(value)) ELSE Text(value)

tags_put_first(result, key, value) ==
    IF key \in Keys(result) THEN result ELSE dict_setitem(result, key, value)

(* result[key] = value *)
tags_put(result, key, value) == dict_setitem(result, key, value)

RECURSIVE get_tags_from(_, _)
get_tags_from(tags, result) ==
    IF tags = <<>> THEN [outcome |-> "ok", result |-> result, tag |-> TagOther]
    ELSE IF is_dict_tag(Head(tags)) \/ is_attr_tag(Head(tags))
    THEN get_tags_from(Tail(tags),
                       tags_put(result, Head(tags).key,
                                tag_value(Head(tags).key, Head(tags).value)))
    ELSE [outcome |-> "ValueError", result |-> <<>>, tag |-> Head(tags)]

(* EC2.get_tags: the dict returned, or the ValueError raised with the tag  *)
(* it names.                                                               *)
get_tags(instance_tags) == get_tags_from(instance_tags, <<>>)

TagKeys == {"Name", S_CLASSES}

(* "h", "a,b,c" *)
TagTexts == {<<"h">>, <<"a", ",", "b", ",", "c">>}

GoodTags ==
    {TagDict({"Key", "Value"}, k, v) : k \in TagKeys, v \in TagTexts}
        \cup {TagObject({"key", "value"}, k, v) : k \in TagKeys, v \in TagTexts}

(* {'Value': 'h'}, {'Key': 'Name'}, an object with no value, and 1 *)
BadTags ==
    {TagDict({"Value"}, "", <<"h">>), TagDict({"Key"}, "Name", <<>>),
     TagObject({"key"}, S_CLASSES, <<>>), TagOther}

TagLists == UNION {[1..n -> GoodTags \cup BadTags] : n \in 0..MaxTags}

(* get_tags is a pure function: the list of tags it is given is drawn    *)
(* first, and the call applies it.                                         *)
InitTags ==
    \E tags \in TagLists :
        LET H == Filter_init(Fixtures, 0)
        IN  /\ filters = H.filters
            /\ dicts = H.dicts
            /\ lists = H.lists
            /\ prev = H
            /\ last = [op |-> "instance_tags", tags |-> tags]
            /\ sdk = <<>>
            /\ acc = <<Built(NoEntries)>>
            /\ run = NoRun
            /\ ec2 = [resource |-> FALSE, client |-> FALSE]
            /\ made = [resource |-> 0, client |-> 0]
            /\ nops = 0

GetTags ==
    /\ last.op = "instance_tags"
    /\ LET R == get_tags(last.tags)
       IN  StepEC2(Heap,
                   [op |-> "get_tags", tags |-> last.tags, outcome |-> R.outcome,
                    returned |-> R.outcome = "ok", ret |-> R.result, tag |-> R.tag],
                   <<>>, ec2)

NextTags == GetTags

SpecTags == InitTags /\ [][NextTags]_vars

(* --------------------------- the SDK as EC2 sees it -------------------- *)

(* An argument the caller gives, or leaves out. *)
Arg(v) == [given |-> TRUE, value |-> v]

NoArg == [given |-> FALSE]

(* No object: what a call that raised returns. *)
NoObject == [none |-> TRUE]

boto_resource == [call |-> "boto.resource", service_name |-> "ec2"]

boto_client == [call |-> "boto.client", service_name |-> "ec2"]

get_resource_again(h) == <<boto_resource>>

(* self._get_resource(): the calls it makes, given the handles h *)
get_resource(h) == IF h.resource THEN <<>> ELSE <<boto_resource>>

(* self._get_client() *)
get_client(h) == IF h.client THEN <<>> ELSE <<boto_client>>

(* The handles after the calls in done returned. *)
HandlesAfter(h, done) ==
    [resource |-> h.resource \/ \E i \in 1..Len(done) : done[i] = boto_resource,
     client |-> h.client \/ \E i \in 1..Len(done) : done[i] = boto_client]

(* What a method does when R is what it does with every SDK call          *)
(* returning, and the SDK call number fail raises (0: none does).         *)
Perform(h, R, fail) ==
    [calls |-> IF fail = 0 THEN R.calls ELSE SubSeq(R.calls, 1, fail),
     outcome |-> IF fail = 0 THEN R.outcome ELSE "SdkError",
     returned |-> fail = 0 /\ R.outcome = "ok",
     ret |-> IF fail = 0 /\ R.outcome = "ok" THEN R.ret ELSE NoObject,
     handles |-> HandlesAfter(h, IF fail = 0 THEN R.calls
                                 ELSE SubSeq(R.calls, 1, fail - 1))]

(* ------------------------------ run_instance --------------------------- *)

INSTANCE_PROFILE_NAME == "bootstrap"

DEFAULT_BLOCK_DEVICE_MAP ==
    <<[VirtualName |-> "ephemeral0", DeviceName |-> "/dev/sdb"],
      [VirtualName |-> "ephemeral1", DeviceName |-> "/dev/sdc"],
      [VirtualName |-> "ephemeral2", DeviceName |-> "/dev/sdd"],
      [VirtualName |-> "ephemeral3", DeviceName |-> "/dev/sde"]>>

create_instances(ImageId, InstanceType, UserData, SecurityGroups, BlockDeviceMappings, IamInstanceProfile, Placement) ==
    [call |-> "create_instances", ImageId |-> ImageId, MinCount |-> 1,
     MaxCount |-> 1, InstanceType |-> InstanceType, UserData |-> UserData,
     SecurityGroups |-> SecurityGroups,
     BlockDeviceMappings |-> BlockDeviceMappings,
     IamInstanceProfile |-> IamInstanceProfile, Placement |-> Placement]

wait_until_running(instance) == [call |-> "wait_until_running", on |-> instance.id]

reload(object) == [call |-> "reload", on |-> object.id]

(* The profile name test_run_instance_with_custom_profile expects. *)
profile_name_kwargs(kwargs) ==
    IF kwargs.iam_instance_profile.given
    THEN kwargs.iam_instance_profile.value ELSE INSTANCE_PROFILE_NAME

(* IamInstanceProfile={'Name': self.INSTANCE_PROFILE_NAME}: kwargs is not *)
(* read.                                                                  *)
profile_name(kwargs) == INSTANCE_PROFILE_NAME

reload_twice(object) == <<reload(object), reload(object)>>

(* instance.reload() *)
reload_once(object) == <<reload(object)>>

(* EC2.run_instance, when every SDK call returns; instances is the list   *)
(* create_instances returns.                                              *)
run_instance(h, ami_id, cloud_config, instance_type, sec_group, zone, block_device_mappings, kwargs, instances) ==
    [calls |-> get_resource(h)
                \o <<create_instances(
                        ami_id, instance_type, cloud_config, <<sec_group>>,
                        IF block_device_mappings.given
                        THEN block_device_mappings.value
                        ELSE DEFAULT_BLOCK_DEVICE_MAP,
                        [Name |-> profile_name(kwargs)],
                        [AvailabilityZone |-> zone]),
                      wait_until_running(instances[1])>>
                \o reload_once(instances[1]),
     outcome |-> "ok",
     ret |-> instances[1]]

(* The tests' instance and one more. *)
FAKE_INSTANCE ==
    [id |-> "i-a1b2c3d4", placement |-> [AvailabilityZone |-> "us-east-1a"],
     classic_address |-> [public_ip |-> "127.0.0.1"]]

OTHER_INSTANCE ==
    [id |-> "i-e5f6a7b8", placement |-> [AvailabilityZone |-> "us-east-1b"],
     classic_address |-> [public_ip |-> "127.0.0.2"]]

Instances == {FAKE_INSTANCE, OTHER_INSTANCE}

Zones == {"us-east-1a", "us-east-1b"}

BlockDeviceMaps ==
    {NoArg, Arg(<<[VirtualName |-> "ephemeral0", DeviceName |-> "/dev/sdz"]>>)}

Profiles == {NoArg, Arg("FakeProfile")}

RunInstance ==
    \E zone \in Zones, block_device_mappings \in BlockDeviceMaps,
       profile \in Profiles :
      \E instance \in {i \in Instances : i.placement.AvailabilityZone = zone} :
        LET kwargs == [iam_instance_profile |-> profile]
            R == run_instance(ec2, "ami-a1b2c3d4", "#cloud_config", "c3.large",
                              "krux-security-group", zone,
                              block_device_mappings, kwargs, <<instance>>)
        IN  \E fail \in 0..Len(R.calls) :
            LET P == Perform(ec2, R, fail) IN
               StepEC2(Heap,
                       [op |-> "run_instance", ami_id |-> "ami-a1b2c3d4",
                        cloud_config |-> "#cloud_config",
                        instance_type |-> "c3.large",
                        sec_group |-> "krux-security-group", zone |-> zone,
                        block_device_mappings |-> block_device_mappings,
                        kwargs |-> kwargs, instances |-> <<instance>>,
                        fail |-> fail, handles |-> ec2,
                        outcome |-> P.outcome, returned |-> P.returned,
                        ret |-> P.ret],
                       P.calls, P.handles)

(* ---------------------------- attach_ebs_volume ------------------------ *)

(* 'volume-id' *)
VOLUME_ID == <<"v", "o", "l", "u", "m", "e", "-", "i", "d">>

(* The tests' volume and one more; their ids are texts, as they go into a  *)
(* Filter.                                                                 *)
FAKE_VOLUME == [id |-> <<"v", "o", "l", "-", "a">>]

OTHER_VOLUME == [id |-> <<"v", "o", "l", "-", "b">>]

(* def attach_ebs_volume(self, instance, device, type, save_on_termination, *)
(*                       volume_id=None, volume_size=None)                   *)
AttachParameters ==
    {"instance", "device", "type", "save_on_termination", "volume_id", "volume_size"}

AttachRequired == {"instance", "device", "type", "save_on_termination"}

(* Python binds a call made with these keywords to the parameters: no     *)
(* keyword it does not know, none of the required ones missing.            *)
binds(keywords) ==
    keywords \subseteq AttachParameters /\ AttachRequired \subseteq keywords

create_volume(Size, AvailabilityZone, VolumeType) ==
    [call |-> "create_volume", Size |-> Size,
     AvailabilityZone |-> AvailabilityZone, VolumeType |-> VolumeType]

get_waiter(name) == [call |-> "get_waiter", name |-> name]

waiter_wait(name, VolumeIds) ==
    [call |-> "wait", waiter |-> name, VolumeIds |-> VolumeIds]

attach_to_instance(volume, InstanceId, Device) ==
    [call |-> "attach_to_instance", on |-> volume.id,
     InstanceId |-> InstanceId, Device |-> Device]

modify_attribute(instance, BlockDeviceMappings) ==
    [call |-> "modify_attribute", on |-> instance.id,
     BlockDeviceMappings |-> BlockDeviceMappings]

(* self._get_resource().volumes.filter(Filters=ebs_filter.to_filter(),     *)
(* *args, **kwargs)                                                        *)
volumes_filter(H, f, args, kwargs) ==
    LET c == find_call(H, "volumes", f, args, kwargs)
    IN  [call |-> "filter", collection |-> c.collection, Filters |-> c.Filters,
         args |-> c.args, kwargs |-> c.kwargs]

delete_on_termination_same(save_on_termination) == save_on_termination

(* 'DeleteOnTermination': not save_on_termination *)
delete_on_termination(save_on_termination) == ~save_on_termination

attach_found_unwaited(h, instance, device, save_on_termination, volume) ==
    <<attach_to_instance(volume, instance.id, device),
      modify_attribute(instance,
         <<[DeviceName |-> device,
            Ebs |-> [VolumeId |-> volume.id,
                     DeleteOnTermination |->
                         delete_on_termination(save_on_termination)]]>>)>>
        \o get_client(h)
        \o <<get_waiter("volume_in_use"),
             waiter_wait("volume_in_use", <<volume.id>>)>>

(* From volume.attach_to_instance(...) to the end. *)
attach_found(h, instance, device, save_on_termination, volume) ==
    <<attach_to_instance(volume, instance.id, device)>>
        \o get_client(h)
        \o <<get_waiter("volume_in_use"),
             waiter_wait("volume_in_use", <<volume.id>>),
             modify_attribute(instance,
                <<[DeviceName |-> device,
                   Ebs |-> [VolumeId |-> volume.id,
                            DeleteOnTermination |->
                                delete_on_termination(save_on_termination)]]>>)>>

attach_ebs_volume_unfound(H, h, keywords, instance, device, type, save_on_termination, volume_id, volume_size, found, created) ==
    IF ~binds(keywords) \/ ~volume_id.given
    THEN [heap |-> H, calls |-> <<>>, outcome |-> "TypeError", ret |-> NoObject]
    ELSE LET H1 == DictLiteral(H, <<[key |-> VOLUME_ID,
                                     values |-> <<volume_id.value>>]>>, <<>>)
             S == map_search_to_filter(H1, SearchDict(Len(H1.dicts)))
             lookup == get_resource(h)
                           \o <<volumes_filter(S.heap, S.filter,
                                               wrapped_args(<<>>), wrapped_kwargs({}))>>
             volume == IF found = <<>> THEN created ELSE found[1]
         IN  [heap |-> H,
              calls |-> lookup \o attach_found(HandlesAfter(h, lookup), instance,
                                               device, save_on_termination, volume),
              outcome |-> "ok", ret |-> volume]

(* EC2.attach_ebs_volume, when every SDK call returns: found is the list   *)
(* volumes.filter gives, created the volume create_volume gives.  The dict *)
(* literal and the Filter made from it are local to the call: nothing      *)
(* refers to them when it returns, and the heap is as it was.              *)
attach_ebs_volume(H, h, keywords, instance, device, type, save_on_termination, volume_id, volume_size, found, created) ==
    IF ~binds(keywords)
    THEN [heap |-> H, calls |-> <<>>, outcome |-> "TypeError", ret |-> NoObject]
    ELSE IF volume_id.given
    THEN LET H1 == DictLiteral(H, <<[key |-> VOLUME_ID,
                                     values |-> <<volume_id.value>>]>>, <<>>)
             S == map_search_to_filter(H1, SearchDict(Len(H1.dicts)))
             lookup == get_resource(h)
                           \o <<volumes_filter(S.heap, S.filter,
                                               wrapped_args(<<>>), wrapped_kwargs({}))>>
         IN  IF found = <<>>
             THEN [heap |-> H, calls |-> lookup, outcome |-> "IndexError",
                   ret |-> NoObject]
             ELSE [heap |-> H,
                   calls |-> lookup \o attach_found(HandlesAfter(h, lookup), instance,
                                                    device, save_on_termination, found[1]),
                   outcome |-> "ok", ret |-> found[1]]
    ELSE IF volume_size.given
    THEN LET create == get_resource(h)
                           \o <<create_volume(volume_size.value,
                                              instance.placement.AvailabilityZone, type)>>
                           \o get_client(h)
                           \o <<get_waiter("volume_available"),
                                waiter_wait("volume_available", <<created.id>>),
                                reload(created)>>
         IN  [heap |-> H,
              calls |-> create \o attach_found(HandlesAfter(h, create), instance, device,
                                               save_on_termination, created),
              outcome |-> "ok", ret |-> created]
    ELSE [heap |-> H, calls |-> <<>>, outcome |-> "ValueError", ret |-> NoObject]

(* How the caller names the volume type: type=, volume_type= as the tests  *)
(* do, or not at all.                                                       *)
TypeKeywords == {{"type"}, {"volume_type"}, {}}

VolumeIdArgs == {NoArg, Arg(FAKE_VOLUME.id)}

VolumeSizeArgs == {NoArg, Arg(10)}

FoundVolumes == {<<>>, <<FAKE_VOLUME>>, <<OTHER_VOLUME, FAKE_VOLUME>>}

AttachKeywords(type_keyword, volume_id, volume_size) ==
    {"instance", "device", "save_on_termination"} \cup type_keyword
        \cup (IF volume_id.given THEN {"volume_id"} ELSE {})
        \cup (IF volume_size.given THEN {"volume_size"} ELSE {})

AttachEbsVolume ==
    \E type_keyword \in TypeKeywords, volume_id \in VolumeIdArgs,
       volume_size \in VolumeSizeArgs :
        LET keywords == AttachKeywords(type_keyword, volume_id, volume_size)
        IN  \E found \in IF volume_id.given THEN FoundVolumes ELSE {<<>>},
               instance \in Instances, save_on_termination \in BOOLEAN :
                LET R == attach_ebs_volume(Heap, ec2, keywords, instance, "/dev/sdz",
                                           "gp2", save_on_termination, volume_id,
                                           volume_size, found, OTHER_VOLUME)
                IN  \E fail \in 0..Len(R.calls) :
                        LET P == Perform(ec2, R, fail)
                        IN  StepEC2(R.heap,
                                [op |-> "attach_ebs_volume", keywords |-> keywords,
                                 instance |-> instance, device |-> "/dev/sdz",
                                 volume_type |-> "gp2",
                                 save_on_termination |-> save_on_termination,
                                 volume_id |-> volume_id, volume_size |-> volume_size,
                                 found |-> found, created |-> OTHER_VOLUME,
                                 fail |-> fail, handles |-> ec2,
                                 outcome |-> P.outcome, returned |-> P.returned,
                                 ret |-> P.ret],
                                P.calls, P.handles)

(* ------------------- find_elastic_ip, update_elastic_ip ---------------- *)

(* Elastic IPs as the SDK lists them. *)
FAKE_ELASTIC_IP == [id |-> "eip-1", public_ip |-> "127.0.0.1"]

SAME_ELASTIC_IP == [id |-> "eip-2", public_ip |-> "127.0.0.1"]

OTHER_ELASTIC_IP == [id |-> "eip-3", public_ip |-> "127.0.0.2"]

(* self._get_resource().classic_addresses.filter with the caller's extra   *)
(* positional and keyword arguments                                        *)
classic_addresses_filter(args, kwargs) ==
    [call |-> "filter", collection |-> "classic_addresses",
     args |-> args, kwargs |-> kwargs]

associate(address, InstanceId) ==
    [call |-> "associate", on |-> address.id, InstanceId |-> InstanceId]

disassociate(address) == [call |-> "disassociate", on |-> address.id]

matches_any(classic_address, ip) == TRUE

(* if classic_address.public_ip == ip *)
matches(classic_address, ip) == classic_address.public_ip = ip

(* EC2.find_elastic_ip, when the SDK call returns: enumerated is what the  *)
(* collection lists.                                                       *)
find_elastic_ip(h, ip, args, kwargs, enumerated) ==
    [calls |-> get_resource(h) \o <<classic_addresses_filter(args, kwargs)>>,
     outcome |-> "ok",
     ret |-> SelectSeq(enumerated, LAMBDA classic_address : matches(classic_address, ip))]

disassociate_first(addresses) ==
    IF addresses = <<>> THEN <<>> ELSE <<disassociate(addresses[1])>>

(* for classic_address in ...: classic_address.disassociate() *)
disassociate_each(addresses) ==
    [i \in 1..Len(addresses) |-> disassociate(addresses[i])]

(* EC2.update_elastic_ip, when every SDK call returns; address is NoArg    *)
(* for None.  It returns None.                                             *)
update_elastic_ip(h, instance, address, enumerated) ==
    IF address.given
    THEN [calls |-> <<associate(address.value, instance.id)>>,
          outcome |-> "ok", ret |-> NoObject]
    ELSE LET F == find_elastic_ip(h, instance.classic_address.public_ip,
                                  <<>>, {}, enumerated)
         IN  [calls |-> F.calls \o disassociate_each(F.ret),
              outcome |-> "ok", ret |-> NoObject]

PublicIps == {"127.0.0.1", "127.0.0.2", "127.0.0.3"}

Enumerations ==
    {<<>>, <<OTHER_ELASTIC_IP>>,
     <<SAME_ELASTIC_IP, OTHER_ELASTIC_IP, FAKE_ELASTIC_IP>>}

Addresses == {NoArg, Arg(FAKE_ELASTIC_IP), Arg(OTHER_ELASTIC_IP)}

FindElasticIp ==
    \E ip \in PublicIps, extra \in Extras, enumerated \in Enumerations :
        LET R == find_elastic_ip(ec2, ip, extra.args, extra.kwargs, enumerated)
        IN  \E fail \in 0..Len(R.calls) :
                LET P == Perform(ec2, R, fail)
                IN  StepEC2(Heap,
                            [op |-> "find_elastic_ip", ip |-> ip, args |-> extra.args,
                             kwargs |-> extra.kwargs, enumerated |-> enumerated,
                             fail |-> fail, handles |-> ec2,
                             outcome |-> P.outcome, returned |-> P.returned,
                             ret |-> P.ret],
                            P.calls, P.handles)

UpdateElasticIp ==
    \E instance \in Instances, address \in Addresses :
        \E enumerated \in IF address.given THEN {<<>>} ELSE Enumerations :
            LET R == update_elastic_ip(ec2, instance, address, enumerated)
            IN  \E fail \in 0..Len(R.calls) :
                    LET P == Perform(ec2, R, fail)
                    IN  StepEC2(Heap,
                                [op |-> "update_elastic_ip", instance |-> instance,
                                 address |-> address, enumerated |-> enumerated,
                                 fail |-> fail, handles |-> ec2,
                                 outcome |-> P.outcome, returned |-> P.returned,
                                 ret |-> P.ret],
                                P.calls, P.handles)

NextEC2 == RunInstance \/ AttachEbsVolume \/ FindElasticIp \/ UpdateElasticIp

SpecEC2 == Init /\ [][NextEC2]_vars

(* ------------------------------ the claims ----------------------------- *)

BuilderOps == {"add_filter", "add_tag_filter", "parse_string"}

(* C1: add_filter(name, v) appends v to the end of name's value sequence   *)
(* when name is present and otherwise creates the one entry name -> [v];   *)
(* after add_filter(name, v1), ..., add_filter(name, vn) in a row on a     *)
(* Filter in which name was absent, the sequence stored under name is      *)
(* exactly [v1, ..., vn].                                                  *)
C1_AddFilterAppends ==
    /\ last.op = "add_filter" =>
          /\ last.name \in Keys(filters[last.self])
          /\ Len(filters[last.self]) = Cardinality(Keys(filters[last.self]))
          /\ FilterEntries(Heap, last.self)[last.name] =
                IF last.name \in Keys(prev.filters[last.self])
                THEN Append(FilterEntries(prev, last.self)[last.name], last.value)
                ELSE <<last.value>>
    /\ run.self # 0 => FilterEntries(Heap, run.self)[run.name] = run.vals

C1_Witness ==
    /\ run.self # 0
    /\ Len(run.vals) >= 3
    /\ run.vals[1] # run.vals[2]
    /\ run.vals[1] = run.vals[3]

StoredEmpty(H, f, k) ==
    f \in 1..Len(H.filters) /\ k \in Keys(H.filters[f]) /\ FilterEntries(H, f)[k] = <<>>

(* C2, as claimed: in every reachable state every stored key has at least  *)
(* one value.                                                              *)
C2_NeverEmpty ==
    \A f \in FilterIds : \A k \in Keys(filters[f]) : ~StoredEmpty(Heap, f, k)

(* C2, amended: a key is stored with an empty value sequence only when     *)
(* that empty sequence was handed in, by the constructor's initial mapping *)
(* or by Set; add_filter, add_tag_filter, parse_string and Delete never    *)
(* store one and never leave the name they add to empty.                   *)
C2_EmptyOnlyWhenGiven ==
    \A f \in FilterIds : \A k \in Keys(filters[f]) :
        StoredEmpty(Heap, f, k) =>
            \/ /\ last.op = "setitem"
               /\ last.self = f /\ last.name = k /\ last.value = <<>>
            \/ /\ last.op = "Filter"
               /\ last.ret = f /\ last.self # 0
               /\ k \in Keys(prev.dicts[last.self])
               /\ DictEntries(prev, last.self)[k] = <<>>
            \/ /\ StoredEmpty(prev, f, k)
               /\ ~(last.op \in BuilderOps /\ last.self = f
                       /\ FilterEntries(Heap, f)[k] # FilterEntries(prev, f)[k])

C2_Witness ==
    /\ last.op \in BuilderOps
    /\ \E k \in Keys(prev.filters[last.self]) :
          StoredEmpty(prev, last.self, k) /\ ~StoredEmpty(Heap, last.self, k)
    /\ \E f \in FilterIds : \E k \in Keys(filters[f]) : StoredEmpty(Heap, f, k)

(* C3, as claimed: add_filter, add_tag_filter, parse_string, Set and       *)
(* Delete on a Filter leave every mapping of the caller, and every value   *)
(* sequence in it, as it was (only a Filter built from a mapping holds     *)
(* that mapping's lists).                                                  *)
C3_CallerMappingUntouched ==
    last.op \in BuilderOps \cup {"setitem", "delitem"} =>
        /\ dicts = prev.dicts
        /\ \A m \in DictIds : DictEntries(Heap, m) = DictEntries(prev, m)

(* C4: parse_string(term) succeeds and leaves the heap as                  *)
(* add_filter(name, value) does, name being the text before the first '='  *)
(* and value all that follows it, or 'tag-value' and the whole term when   *)
(* the term holds no '='.                                                  *)
C4_ParseStringIsAddFilter ==
    /\ Parsed(<<"k", "=", "v", "=", "w">>) = <<K, <<"v", "=", "w">>>>
    /\ last.op = "parse_string" =>
          /\ last.outcome = "ok"
          /\ \E name \in {SubSeq(last.value, 1, i) : i \in 0..Len(last.value)}
                            \cup {TAG_VALUE} :
             \E value \in {SubSeq(last.value, i, Len(last.value)) :
                                i \in 1..(Len(last.value) + 1)} :
                /\ Splits(last.value, name, value)
                /\ Heap = add_filter(prev, last.self, name, value)
                /\ FilterEntries(Heap, last.self)[name] =
                      IF name \in Keys(prev.filters[last.self])
                      THEN Append(FilterEntries(prev, last.self)[name], value)
                      ELSE <<value>>

C4_Witness ==
    /\ last.op = "parse_string"
    /\ last.value = <<"k", "=", "v", "=", "w">>
    /\ K \in Keys(prev.filters[last.self])
    /\ Len(FilterEntries(Heap, last.self)[K]) >= 2

(* C5, as claimed: for a Filter changed only by construction, add_filter,  *)
(* add_tag_filter and parse_string, to_filter() returns one record per     *)
(* name it was given, with Values the values it was given under that name  *)
(* in the order given, and as many records as len() says.                  *)
C5_OneRecordPerKeyGiven ==
    \A f \in FilterIds :
        acc[f].pure =>
            LET out == to_filter(Heap, f)
            IN  /\ Len(out) = Cardinality(DOMAIN acc[f].given)
                /\ Len(out) = Filter_len(Heap, f)
                /\ {out[i].Name : i \in 1..Len(out)} = DOMAIN acc[f].given
                /\ \A i \in 1..Len(out) : out[i].Values = acc[f].given[out[i].Name]

(* C6: add_tag_filter(n, v) leaves the heap as add_filter('tag:' + n, v)   *)
(* does from the same heap.                                                *)
C6_AddTagFilterIsAddFilter ==
    last.op = "add_tag_filter" =>
        LET name == <<"t", "a", "g", ":">> \o last.name
        IN  /\ Heap = add_filter(prev, last.self, name, last.value)
            /\ name \in Keys(filters[last.self])
            /\ FilterEntries(Heap, last.self)[name] =
                  IF name \in Keys(prev.filters[last.self])
                  THEN Append(FilterEntries(prev, last.self)[name], last.value)
                  ELSE <<last.value>>

C6_Witness ==
    /\ last.op = "add_tag_filter"
    /\ TAG_PREFIX \o last.name \in Keys(prev.filters[last.self])
    /\ Len(FilterEntries(Heap, last.self)[TAG_PREFIX \o last.name]) >= 2

(* C7, as claimed: a Filter built from the items of a mapping m given as   *)
(* keywords is built, and its entries are m's.                             *)
C7_InitKeywords ==
    last.op = "Filter**" =>
        /\ last.outcome = "ok"
        /\ FilterEntries(Heap, last.ret) = DictEntries(prev, last.self)

(* C8: f[name] and del f[name] for a name not stored end in KeyError and   *)
(* change nothing; del f[name] for a stored name removes that key and no   *)
(* other.                                                                  *)
C8_MissingKeyAndDelete ==
    last.op \in {"getitem", "delitem"} =>
        IF last.name \notin Keys(prev.filters[last.self])
        THEN last.outcome = "KeyError" /\ Heap = prev
        ELSE /\ last.outcome = "ok"
             /\ last.op = "delitem" =>
                  /\ Keys(filters[last.self]) = Keys(prev.filters[last.self]) \ {last.name}
                  /\ \A k \in Keys(filters[last.self]) :
                        FilterEntries(Heap, last.self)[k] = FilterEntries(prev, last.self)[k]
                  /\ \A f \in FilterIds \ {last.self} : filters[f] = prev.filters[f]
                  /\ lists = prev.lists
                  /\ dicts = prev.dicts

C8_Witness ==
    /\ last.op = "delitem"
    /\ last.outcome = "ok"
    /\ Keys(filters[last.self]) # {}
    /\ last.name \notin Keys(filters[last.self])

(* C9: the decorator hands the method one Filter: for a list, a new Filter *)
(* that is the terms parsed in order; for a dict, a new Filter with the    *)
(* dict's entries; for a Filter, that same instance, nothing changed; for  *)
(* anything else NotImplementedError is raised and the method is not run.  *)
C9_MapSearchToFilter ==
    last.op = "find" =>
        CASE last.search.type = "list" ->
                /\ last.outcome = "ok"
                /\ last.ret = Len(prev.filters) + 1
                /\ SubSeq(filters, 1, Len(prev.filters)) = prev.filters
                /\ FilterEntries(Heap, last.ret) = GivenTerms(NoEntries, last.search.terms)
                /\ Len(sdk) = 1 /\ sdk[1].Filters = to_filter(Heap, last.ret)
          [] last.search.type = "dict" ->
                /\ last.outcome = "ok"
                /\ last.ret = Len(prev.filters) + 1
                /\ SubSeq(filters, 1, Len(prev.filters)) = prev.filters
                /\ FilterEntries(Heap, last.ret) = DictEntries(prev, last.search.ref)
                /\ Len(sdk) = 1 /\ sdk[1].Filters = to_filter(Heap, last.ret)
          [] last.search.type = "Filter" ->
                /\ last.outcome = "ok"
                /\ last.ret = last.search.ref
                /\ Heap = prev
                /\ Len(sdk) = 1 /\ sdk[1].Filters = to_filter(prev, last.search.ref)
          [] OTHER ->
                /\ last.outcome = "NotImplementedError"
                /\ Heap = prev
                /\ sdk = <<>>

C9_Witness ==
    /\ last.op = "find"
    /\ last.search.type = "Filter"
    /\ Len(sdk) = 1
    /\ \E i \in 1..Len(sdk[1].Filters) : Len(sdk[1].Filters[i].Values) >= 2

(* C10, as claimed: what the caller passes to find_instances or            *)
(* find_ebs_volumes after the search reaches the collection's filter()     *)
(* call, together with Filters.                                            *)
C10_ExtraArgumentsPassedOn ==
    (last.op = "find" /\ last.outcome = "ok") =>
        /\ Len(sdk) = 1
        /\ sdk[1].collection = last.name
        /\ sdk[1].Filters = to_filter(Heap, last.ret)
        /\ sdk[1].args = last.args
        /\ sdk[1].kwargs = last.kwargs

(* A tag record of one of the two shapes get_tags reads. *)
ValidTag(tag) ==
    \/ tag.shape = "dict" /\ {"Key", "Value"} \subseteq tag.has
    \/ tag.shape = "object" /\ {"key", "value"} \subseteq tag.has

RECURSIVE JoinCommas(_)
JoinCommas(pieces) ==
    IF Len(pieces) = 1 THEN pieces[1]
    ELSE pieces[1] \o <<COMMA>> \o JoinCommas(Tail(pieces))

(* The last record of tags whose key is k. *)
LastWith(tags, k) ==
    tags[CHOOSE i \in 1..Len(tags) :
            /\ tags[i].key = k
            /\ \A j \in (i + 1)..Len(tags) : tags[j].key # k]

(* C11: get_tags of valid tag records returns a mapping whose keys are     *)
(* exactly the keys of the records; under each key is the value of the     *)
(* last record with that key, unchanged, except under 's_classes', where   *)
(* it is that value split on commas into a list.                           *)
C11_GetTagsFolds ==
    (last.op = "get_tags" /\ \A i \in 1..Len(last.tags) : ValidTag(last.tags[i])) =>
        /\ last.outcome = "ok"
        /\ last.returned
        /\ Keys(last.ret) = {last.tags[i].key : i \in 1..Len(last.tags)}
        /\ Cardinality(Keys(last.ret)) = Len(last.ret)
        /\ \A k \in Keys(last.ret) :
              LET value == LastWith(last.tags, k).value
                  stored == dict_getitem(last.ret, k)
              IN  IF k = S_CLASSES
                  THEN /\ stored.kind = "list"
                       /\ Len(stored.v) >= 1
                       /\ JoinCommas(stored.v) = value
                       /\ \A i \in 1..Len(stored.v) : COMMA \notin Range(stored.v[i])
                  ELSE stored = Text(value)

C11_Witness ==
    /\ last.op = "get_tags"
    /\ last.outcome = "ok"
    /\ Len(last.tags) = 3
    /\ last.tags[1].key = "Name" /\ last.tags[3].key = "Name"
    /\ last.tags[1].value # last.tags[3].value
    /\ last.tags[2].key = S_CLASSES
    /\ Len(dict_getitem(last.ret, S_CLASSES).v) = 3

(* C12: get_tags of a list holding a record that is neither a mapping with *)
(* 'Key' and 'Value' nor an object with key and value raises ValueError    *)
(* naming the first such record, and returns no mapping, however many      *)
(* valid records come before it.                                           *)
C12_GetTagsRejects ==
    (last.op = "get_tags" /\ \E i \in 1..Len(last.tags) : ~ValidTag(last.tags[i])) =>
        /\ last.outcome = "ValueError"
        /\ ~last.returned
        /\ last.ret = <<>>
        /\ \E i \in 1..Len(last.tags) :
              /\ last.tag = last.tags[i]
              /\ ~ValidTag(last.tags[i])
              /\ \A j \in 1..(i - 1) : ValidTag(last.tags[j])

C12_Witness ==
    /\ last.op = "get_tags"
    /\ last.outcome = "ValueError"
    /\ Len(last.tags) = 3
    /\ ValidTag(last.tags[1]) /\ ValidTag(last.tags[2])
    /\ last.tags[3] = TagDict({"Key"}, "Name", <<>>)

(* The SDK calls of the last method call that are calls of name. *)
IsCall(c, name) == "call" \in DOMAIN c /\ c.call = name

CallsOf(name) == SelectSeq(sdk, LAMBDA c : IsCall(c, name))

Where(name) == {i \in 1..Len(sdk) : IsCall(sdk[i], name)}

(* C13, as claimed: run_instance asks for the instance profile the caller  *)
(* names with iam_instance_profile, and for 'bootstrap' only when the      *)
(* caller names none.                                                      *)
C13_ProfileHonoured ==
    last.op = "run_instance" =>
        \A i \in Where("create_instances") :
            sdk[i].IamInstanceProfile = [Name |-> profile_name_kwargs(last.kwargs)]

(* C14: run_instance makes at most one create_instances request; when it   *)
(* returns it has made exactly one, for one instance, with the caller's    *)
(* arguments and the default block-device map when none is given, then     *)
(* waited for the instance created, then reloaded it once, and it returns  *)
(* that instance.  When create_instances or the wait raises there is no    *)
(* reload and nothing is returned.                                         *)
C14_RunInstance ==
    last.op = "run_instance" =>
        /\ Len(CallsOf("create_instances")) <= 1
        /\ last.returned <=> last.outcome = "ok"
        /\ last.outcome = "ok" =>
              /\ \E i, j, k \in 1..Len(sdk) :
                    /\ i < j /\ j < k /\ k = Len(sdk)
                    /\ Where("create_instances") = {i}
                    /\ sdk[i].ImageId = last.ami_id
                    /\ sdk[i].MinCount = 1 /\ sdk[i].MaxCount = 1
                    /\ sdk[i].InstanceType = last.instance_type
                    /\ sdk[i].UserData = last.cloud_config
                    /\ sdk[i].SecurityGroups = <<last.sec_group>>
                    /\ sdk[i].Placement = [AvailabilityZone |-> last.zone]
                    /\ ~last.block_device_mappings.given =>
                          /\ sdk[i].BlockDeviceMappings = DEFAULT_BLOCK_DEVICE_MAP
                          /\ Len(sdk[i].BlockDeviceMappings) = 4
                    /\ last.block_device_mappings.given =>
                          sdk[i].BlockDeviceMappings = last.block_device_mappings.value
                    /\ Where("wait_until_running") = {j}
                    /\ sdk[j].on = last.instances[1].id
                    /\ Where("reload") = {k}
                    /\ sdk[k].on = last.instances[1].id
              /\ last.ret = last.instances[1]
        /\ (/\ last.fail > 0
            /\ sdk[last.fail].call \in {"create_instances", "wait_until_running"}) =>
              /\ Where("reload") = {}
              /\ ~last.returned
              /\ last.ret = NoObject

C14_Witness ==
    /\ last.op = "run_instance"
    /\ last.outcome = "ok"
    /\ ~last.block_device_mappings.given
    /\ last.ret = OTHER_INSTANCE
    /\ Len(sdk) = 4

(* C15, as claimed: attach_ebs_volume called with volume_size and the     *)
(* volume type under the keyword volume_type, and no volume_id, creates    *)
(* one volume of that size and type in the instance's zone, reloads it     *)
(* once, attaches it to the instance at the device and returns it.         *)
C15_AttachCreatesVolume ==
    (/\ last.op = "attach_ebs_volume"
     /\ "volume_type" \in last.keywords /\ "type" \notin last.keywords
     /\ last.volume_size.given /\ ~last.volume_id.given
     /\ last.fail = 0) =>
        /\ last.outcome = "ok"
        /\ CallsOf("create_volume") =
              <<create_volume(last.volume_size.value,
                              last.instance.placement.AvailabilityZone,
                              last.volume_type)>>
        /\ CallsOf("reload") = <<reload(last.created)>>
        /\ CallsOf("attach_to_instance") =
              <<attach_to_instance(last.created, last.instance.id, last.device)>>
        /\ last.returned
        /\ last.ret = last.created

(* C16, as claimed: attach_ebs_volume called with a volume_id, whether or  *)
(* not a volume type is given, looks the volume up with the filter         *)
(* {'volume-id': [volume_id]}, creates and reloads nothing, attaches the   *)
(* volume found and returns it, also when volume_size is given.            *)
C16_AttachUsesVolumeId ==
    (/\ last.op = "attach_ebs_volume"
     /\ last.keywords \subseteq AttachParameters
     /\ last.volume_id.given /\ last.found # <<>>
     /\ last.fail = 0) =>
        /\ last.outcome = "ok"
        /\ Len(CallsOf("filter")) = 1
        /\ CallsOf("filter")[1].collection = "volumes"
        /\ CallsOf("filter")[1].Filters =
              <<[Name |-> VOLUME_ID, Values |-> <<last.volume_id.value>>]>>
        /\ Where("create_volume") = {}
        /\ Where("reload") = {}
        /\ CallsOf("attach_to_instance") =
              <<attach_to_instance(last.found[1], last.instance.id, last.device)>>
        /\ last.returned
        /\ last.ret = last.found[1]

(* C17, as claimed: attach_ebs_volume called with neither volume_id nor    *)
(* volume_size raises ValueError before it makes any SDK call or creates   *)
(* a resource or client handle.                                            *)
C17_AttachNeedsVolume ==
    (/\ last.op = "attach_ebs_volume"
     /\ last.keywords \subseteq AttachParameters
     /\ ~last.volume_id.given /\ ~last.volume_size.given) =>
        /\ last.outcome = "ValueError"
        /\ ~last.returned
        /\ sdk = <<>>
        /\ ec2 = last.handles

(* C18: an attach_ebs_volume call that returns has modified the            *)
(* instance's block-device mapping exactly once, for the device given and  *)
(* the id of the volume it attached and returns, with DeleteOnTermination  *)
(* the negation of save_on_termination.                                    *)
C18_DeleteOnTermination ==
    (last.op = "attach_ebs_volume" /\ last.outcome = "ok") =>
        /\ CallsOf("attach_to_instance") =
              <<attach_to_instance(last.ret, last.instance.id, last.device)>>
        /\ Len(CallsOf("modify_attribute")) = 1
        /\ sdk[Len(sdk)].call = "modify_attribute"
        /\ sdk[Len(sdk)].on = last.instance.id
        /\ Len(sdk[Len(sdk)].BlockDeviceMappings) = 1
        /\ LET mapping == sdk[Len(sdk)].BlockDeviceMappings[1]
           IN  /\ mapping.DeviceName = last.device
               /\ mapping.Ebs.VolumeId = last.ret.id
               /\ mapping.Ebs.DeleteOnTermination = ~last.save_on_termination
               /\ last.save_on_termination => mapping.Ebs.DeleteOnTermination = FALSE
               /\ ~last.save_on_termination => mapping.Ebs.DeleteOnTermination = TRUE

C18_Witness ==
    /\ last.op = "attach_ebs_volume"
    /\ last.outcome = "ok"
    /\ last.save_on_termination
    /\ last.volume_id.given
    /\ last.ret = OTHER_VOLUME

(* C19: a find_elastic_ip call that returns gives exactly the addresses   *)
(* the classic_addresses collection listed whose public_ip is ip, in the   *)
(* order listed, the empty list when there is none; whether it returns or  *)
(* raises it associates and disassociates nothing.                         *)
C19_FindElasticIp ==
    last.op = "find_elastic_ip" =>
        /\ Where("associate") = {} /\ Where("disassociate") = {}
        /\ last.outcome = "ok" <=> last.fail = 0
        /\ last.outcome = "ok" =>
              /\ last.returned
              /\ Len(CallsOf("filter")) = 1
              /\ CallsOf("filter")[1].collection = "classic_addresses"
              /\ Range(last.ret) =
                    {a \in Range(last.enumerated) : a.public_ip = last.ip}
              /\ \A i, j \in 1..Len(last.ret) :
                    i < j => \E m, n \in 1..Len(last.enumerated) :
                                /\ m < n
                                /\ last.enumerated[m] = last.ret[i]
                                /\ last.enumerated[n] = last.ret[j]
              /\ (\A a \in Range(last.enumerated) : a.public_ip # last.ip) =>
                    last.ret = <<>>

C19_Witness ==
    /\ last.op = "find_elastic_ip"
    /\ last.outcome = "ok"
    /\ last.ret = <<SAME_ELASTIC_IP, FAKE_ELASTIC_IP>>
    /\ Len(last.enumerated) = 3

(* C20: an update_elastic_ip call that returns has, given an address,      *)
(* called associate on it once with the instance's id and disassociated    *)
(* nothing; given None, called disassociate once on every listed address   *)
(* whose public_ip is the instance's classic address public_ip, on no      *)
(* other, and associated nothing.                                          *)
C20_UpdateElasticIp ==
    (last.op = "update_elastic_ip" /\ last.outcome = "ok") =>
        IF last.address.given
        THEN /\ CallsOf("associate") =
                   <<associate(last.address.value, last.instance.id)>>
             /\ Where("disassociate") = {}
        ELSE /\ Where("associate") = {}
             /\ \A a \in Range(last.enumerated) :
                   Len(SelectSeq(sdk, LAMBDA c : c = disassociate(a))) =
                       IF a.public_ip = last.instance.classic_address.public_ip
                       THEN 1 ELSE 0
             /\ \A i \in Where("disassociate") :
                   \E a \in Range(last.enumerated) : sdk[i] = disassociate(a)

C20_Witness ==
    /\ last.op = "update_elastic_ip"
    /\ last.outcome = "ok"
    /\ ~last.address.given
    /\ Len(CallsOf("disassociate")) = 2
    /\ Len(last.enumerated) = 3

(* The last call is a call of an EC2 method that may reach the SDK. *)
EC2Ops == {"run_instance", "attach_ebs_volume", "find_elastic_ip", "update_elastic_ip"}

(* The SDK call c of the last method call was made and returned. *)
Returned(c) ==
    \E i \in 1..Len(sdk) : sdk[i] = c /\ (last.fail = 0 \/ i < last.fail)

(* C21, as claimed: over any sequence of operations on one EC2 object      *)
(* boto.resource is invoked at most once and boto.client at most once.     *)
C21_HandlesMadeOnce == made.resource <= 1 /\ made.client <= 1

(* C21, amended: no handle exists before boto was asked for it; an         *)
(* operation asks boto for a handle only while none is cached, at most     *)
(* once, and the handle is cached exactly when that call returns; a        *)
(* cached handle stays, and creating one handle leaves the other as it     *)
(* was.                                                                    *)
C21_HandlesCached ==
    /\ ec2.resource => made.resource >= 1
    /\ ec2.client => made.client >= 1
    /\ nops = 0 => ec2 = [resource |-> FALSE, client |-> FALSE]
    /\ last.op \in EC2Ops =>
          /\ last.handles.resource =>
                ec2.resource /\ boto_resource \notin Range(sdk)
          /\ last.handles.client =>
                ec2.client /\ boto_client \notin Range(sdk)
          /\ Len(SelectSeq(sdk, LAMBDA c : c = boto_resource)) <= 1
          /\ Len(SelectSeq(sdk, LAMBDA c : c = boto_client)) <= 1
          /\ ec2.resource <=> (last.handles.resource \/ Returned(boto_resource))
          /\ ec2.client <=> (last.handles.client \/ Returned(boto_client))

C21_Witness ==
    /\ last.op = "attach_ebs_volume"
    /\ last.outcome = "ok"
    /\ last.handles = [resource |-> TRUE, client |-> FALSE]
    /\ ec2 = [resource |-> TRUE, client |-> TRUE]
    /\ made = [resource |-> 1, client |-> 1]
    /\ Len(CallsOf("get_waiter")) = 2

(* The steps of the last method call: its SDK calls other than getting a  *)
(* handle or a waiter, a wait named by its waiter.                         *)
StepNames ==
    LET steps == SelectSeq(sdk, LAMBDA c :
                     c.call \notin {"boto.resource", "boto.client", "get_waiter"})
    IN  [i \in 1..Len(steps) |->
            IF steps[i].call = "wait" THEN steps[i].waiter ELSE steps[i].call]

CreateOrder ==
    <<"create_volume", "volume_available", "reload", "attach_to_instance",
      "volume_in_use", "modify_attribute">>

(* C22: an attach_ebs_volume call that is to create a volume (type and     *)
(* volume_size given, no volume_id) performs create_volume, the            *)
(* 'volume_available' wait, reload, attach_to_instance, the                *)
(* 'volume_in_use' wait and modify_attribute in this order, each at most   *)
(* once; a step that raises is the last thing done; the call returns       *)
(* exactly when all six were done and none raised.                         *)
C22_AttachOrder ==
    (/\ last.op = "attach_ebs_volume"
     /\ binds(last.keywords)
     /\ ~last.volume_id.given /\ last.volume_size.given) =>
        /\ Len(StepNames) <= Len(CreateOrder)
        /\ StepNames = SubSeq(CreateOrder, 1, Len(StepNames))
        /\ \A i \in Where("attach_to_instance") :
              \E j \in 1..(i - 1) :
                  sdk[j] = waiter_wait("volume_available", <<last.created.id>>)
        /\ \A i \in Where("modify_attribute") :
              \E j \in 1..(i - 1) :
                  sdk[j] = waiter_wait("volume_in_use", <<last.created.id>>)
        /\ last.fail # 0 => (Len(sdk) = last.fail /\ ~last.returned)
        /\ last.fail = 0 => StepNames = CreateOrder
        /\ last.returned <=> (last.fail = 0 /\ StepNames = CreateOrder)
        /\ last.returned => last.ret = last.created

C22_Witness ==
    /\ last.op = "attach_ebs_volume"
    /\ binds(last.keywords)
    /\ ~last.volume_id.given
    /\ last.fail # 0
    /\ sdk[last.fail] = waiter_wait("volume_in_use", <<OTHER_VOLUME.id>>)
    /\ Len(StepNames) = 5

(* The criterion name the last add_filter, add_tag_filter or parse_string  *)
(* call targets.                                                           *)
Target ==
    CASE last.op = "add_filter" -> last.name
      [] last.op = "add_tag_filter" -> TAG_PREFIX \o last.name
      [] last.op = "parse_string" -> Parsed(last.value)[1]

(* C23, as claimed: add_filter, add_tag_filter and parse_string leave      *)
(* every key of the Filter other than the one they target with its         *)
(* previous value sequence, remove no key, and add one key exactly when    *)
(* the name was absent.                                                    *)
C23_OtherKeysKept ==
    last.op \in BuilderOps =>
        /\ Keys(prev.filters[last.self]) \subseteq Keys(filters[last.self])
        /\ Len(filters[last.self]) =
              Len(prev.filters[last.self])
                  + (IF Target \in Keys(prev.filters[last.self]) THEN 0 ELSE 1)
        /\ \A k \in Keys(prev.filters[last.self]) \ {Target} :
              FilterEntries(Heap, last.self)[k] = FilterEntries(prev, last.self)[k]

(* C24: when attach_ebs_volume is given a volume_id and the volume search  *)
(* it makes returns no volume, the call raises IndexError and the search   *)
(* is the last thing it did: nothing is created, attached, waited for or   *)
(* modified, and nothing is returned.  Whatever else happens in a call     *)
(* with a volume_id that no volume has, the instance is left alone.        *)
C24_VolumeNotFound ==
    (/\ last.op = "attach_ebs_volume"
     /\ last.volume_id.given
     /\ last.found = <<>>) =>
        /\ Where("create_volume") = {}
        /\ Where("attach_to_instance") = {}
        /\ Where("get_waiter") = {} /\ Where("wait") = {}
        /\ Where("modify_attribute") = {}
        /\ ~last.returned
        /\ (/\ sdk # <<>>
            /\ IsCall(sdk[Len(sdk)], "filter")
            /\ Returned(sdk[Len(sdk)])) =>
              /\ last.outcome = "IndexError"
              /\ Len(CallsOf("filter")) = 1
              /\ sdk[Len(sdk)].collection = "volumes"
              /\ sdk[Len(sdk)].Filters =
                    <<[Name |-> VOLUME_ID, Values |-> <<last.volume_id.value>>]>>
              /\ ec2.client = last.handles.client

C24_Witness ==
    /\ last.op = "attach_ebs_volume"
    /\ last.outcome = "IndexError"
    /\ last.volume_size.given
    /\ last.found = <<>>
    /\ Len(sdk) = 2

====
